---- MODULE Spec2Model ----
(***************************************************************************)
(* Model of the Socket.IO chat hub of server.js: the connection            *)
(* lifecycle, the auth handshake, the presence map `online`, the           *)
(* read-modify-rewrite message log in messages.json and the broadcasts.    *)
(*                                                                         *)
(* Node runs one handler segment at a time; a handler gives up control at  *)
(* each `await`.  An await on messages.json is therefore two steps here:   *)
(* the file operation itself (performed by the I/O layer at some moment    *)
(* after the call) and the resumption of the handler with the result.  Any *)
(* other handler segment may run between the two.  users.json is only read *)
(* by the hub and never rewritten, so its read is part of the resumption.  *)
(*                                                                         *)
(* Under Spec the reads and writes of the files complete and do not fail.  *)
(* SpecFaults adds the failures of the file system: a file that has become *)
(* unreadable (missing or corrupt), which readJSON turns into [], and a    *)
(* writeFile that rejects, which writeJSON hands on to the handler.        *)
(* SpecLive is Spec with the fairness of the event loop and the I/O layer: *)
(* a pending file operation completes and a resumed handler runs.          *)
(***************************************************************************)
EXTENDS Integers, Sequences, FiniteSets, Bags, TLC

\* ---------------------------------------------------------------- bounds
\* Number of sockets that may ever connect.
NumConns == 2
\* Number of handler invocations that may be suspended at an await at once.
MaxTasks == 2
\* Number of auth handlers that may be suspended at once.
MaxAuths == 1
\* Number of send events that are accepted over a run.
MaxSends == 2
\* Number of messages that messages.json may hold when the server starts.
MaxBoot == 1
\* Retention bound of the message log: 2000 in server.js:173 and :195,
\* scaled down so that eviction happens within MaxBoot + MaxSends messages.
RETENTION == 2
\* Length of the history tail sent on auth: 500 in server.js:151, scaled
\* down below RETENTION so that the tail is a proper suffix of a full log.
TAIL == 1

Conns == 1..NumConns

\* ------------------------------------------------------------ input sets
\* The id the client behind each socket holds ("u1" or "u2", both in
\* users.json): a client presents its own id in `auth`, or "u0", which is
\* not in users.json.
ClientUser(c) == IF c % 2 = 1 THEN "u1" ELSE "u2"
AuthIds(c) == {ClientUser(c), "u0"}
\* Payloads of send-message, as sequences of characters.
Texts == { <<>>, <<" ">>, <<" ", "a">>, <<"a", " ">> }
\* Payloads of send-image ("" is the empty reference).
ImageUrls == { <<>>, <<"i">> }

\* ------------------------------------------------------------- constants
NoUser == [id |-> "none", username |-> "none", profile |-> <<>>, color |-> <<>>]
NoMsg == [id |-> 0, userId |-> "none", username |-> "none", profile |-> <<>>,
          color |-> <<>>, kind |-> "none", body |-> <<>>, timestamp |-> 0]
DefaultColor == <<"#", "f", "f", "f">>
\* The i-th message left in messages.json by an earlier run of the server.
OldMsg(i) == [id |-> 0 - i, userId |-> "u1", username |-> "u1", profile |-> <<>>,
              color |-> <<"#", "u1">>, kind |-> "text", body |-> <<"a">>,
              timestamp |-> 0 - i]

\* A record of users.json, as written by /api/register.
UserRec(u) ==
  [id |-> u, username |-> u,
   passwordHash |-> <<"h", u>>,
   profile |-> IF u = "u2" THEN <<"p">> ELSE <<>>,
   color |-> <<"#", u>>,
   createdAt |-> 0]

VARIABLES
  conn,          \* conn[c]: "new" (not connected yet), "open", "closed"
  socketUser,    \* socket.user of each socket; NoUser while undefined
  online,        \* the presence map, entries [key, user] in insertion order
  usersFile,     \* content of users.json: sequence of user records
  messagesFile,  \* content of messages.json: sequence of messages
  tasks,         \* bag of the handler invocations suspended at an await
  clock,         \* source of message ids and timestamps (Date.now, Math.random)
  sent,          \* history: payloads of the new-message broadcasts, in order
  out,           \* events emitted by the last step
  lastOp,        \* history: the step that was taken last
  bootLog,       \* history: messages.json as the server found it at start
  broken         \* the files that cannot be read or parsed: "users", "messages"

vars == <<conn, socketUser, online, usersFile, messagesFile, tasks, clock,
          sent, out, lastOp, bootLog, broken>>

\* ------------------------------------------------------ pure helpers
Min(a, b) == IF a < b THEN a ELSE b
Max(a, b) == IF a > b THEN a ELSE b

IsSpace(ch) == ch = " "

\* String.prototype.trim: drop leading and trailing white space.
RECURSIVE TrimLeft(_)
TrimLeft(s) ==
  IF s = <<>> THEN <<>>
  ELSE IF IsSpace(Head(s)) THEN TrimLeft(Tail(s)) ELSE s

RECURSIVE TrimRight(_)
TrimRight(s) ==
  IF s = <<>> THEN <<>>
  ELSE IF IsSpace(s[Len(s)]) THEN TrimRight(SubSeq(s, 1, Len(s) - 1)) ELSE s

\* Variant of Trim that leaves the text as given.
TrimNone(s) == s

Trim(s) == TrimRight(TrimLeft(s))

\* Variant of SliceLast that takes the first n elements, as slice(0, n) does.
SliceFirst(arr, n) == [i \in 1..Min(n, Len(arr)) |-> arr[i]]

\* Array.prototype.slice(-n): from index max(len - n, 0) to the end.
SliceLast(arr, n) ==
  LET start == Max(Len(arr) - n, 0)
  IN  [i \in 1..(Len(arr) - start) |-> arr[start + i]]

\* Variant of Truncate that never drops a message.
TruncateNever(arr) == arr

\* messages.splice(0, messages.length - RETENTION) when over the bound.
Truncate(arr) ==
  IF Len(arr) > RETENTION
  THEN LET k == Len(arr) - RETENTION
       IN  [i \in 1..(Len(arr) - k) |-> arr[k + i]]
  ELSE arr

\* users.find(u => u.id === userId): index of the first match, 0 if none.
RECURSIVE FindFrom(_, _, _)
FindFrom(users, uid, i) ==
  IF i > Len(users) THEN 0
  ELSE IF users[i].id = uid THEN i
  ELSE FindFrom(users, uid, i + 1)

Find(users, uid) == FindFrom(users, uid, 1)

\* Variant of Safe that hands on the whole user record.
SafeWhole(u) == u

\* The safe projection { id, username, profile, color } of a user record.
Safe(u) == [id |-> u.id, username |-> u.username, profile |-> u.profile,
            color |-> u.color]

\* ------------------------------------------------ the presence map
RECURSIVE KeyIndex(_, _, _)
KeyIndex(o, k, i) ==
  IF i > Len(o) THEN 0
  ELSE IF o[i].key = k THEN i
  ELSE KeyIndex(o, k, i + 1)

HasKey(o, k) == KeyIndex(o, k, 1) # 0

\* Variant of OnlinePut that adds an entry without looking for the key.
OnlinePutAppend(o, k, u) == Append(o, [key |-> k, user |-> u])

\* online[socket.id] = user: replaces the value of an existing key in place,
\* appends a new key otherwise.
OnlinePut(o, k, u) ==
  IF HasKey(o, k)
  THEN [o EXCEPT ![KeyIndex(o, k, 1)] = [key |-> k, user |-> u]]
  ELSE Append(o, [key |-> k, user |-> u])

\* Variant of OnlineDelete that leaves the map as it is.
OnlineDeleteNone(o, k) == o

\* delete online[socket.id]
OnlineDelete(o, k) == SelectSeq(o, LAMBDA e : e.key # k)

\* Object.values(online)
OnlineValues(o) == [i \in 1..Len(o) |-> o[i].user]

\* ------------------------------------------------------ emitting
OpenConns == {c \in Conns : conn[c] = "open"}

EmitTo(S, ev, payload) == <<[ev |-> ev, to |-> S, payload |-> payload]>>

\* io.emit(ev, payload): to every socket connected now.
IoEmit(ev, payload) == EmitTo(OpenConns, ev, payload)

\* Variant of SocketEmit that emits to every socket, as io.emit does.
SocketEmitAll(c, ev, payload) == EmitTo(OpenConns, ev, payload)

\* socket.emit(ev, payload): to this socket, dropped when it is gone.
SocketEmit(c, ev, payload) == EmitTo({c} \cap OpenConns, ev, payload)

\* ------------------------------------------------------ tasks
\* A suspended handler invocation: its handler, where it waits, its socket,
\* its argument and its local variables messages and msg.
NewTask(kind, pc, c, arg) ==
  [kind |-> kind, pc |-> pc, conn |-> c, arg |-> arg,
   messages |-> <<>>, msg |-> NoMsg]

Running == BagToSet(tasks)
HasFree == BagCardinality(tasks) < MaxTasks
NumAuths ==
  LET S == {t \in Running : t.kind = "auth"}
  IN  BagCardinality([t \in S |-> CopiesIn(t, tasks)])
Spawn(t) == tasks (+) SetToBag({t})
Finish(t) == tasks (-) SetToBag({t})
Step(t, t2) == (tasks (-) SetToBag({t})) (+) SetToBag({t2})

SendKinds == {"send-message", "send-image"}
\* Sends accepted so far: those that built their message, and those that
\* are still waiting for the log to be read.
SendsStarted ==
  LET S == {t \in Running : t.pc \in {"send_read", "send_have"}}
  IN  (clock - 1) + BagCardinality([t \in S |-> CopiesIn(t, tasks)])

\* lastOp: the handler segment taken last, with its socket and argument;
\* Quiet for the steps that no property below looks back at.
Op(name, c, arg) == [op |-> name, conn |-> c, arg |-> arg]
Quiet == Op("quiet", 0, <<>>)

Init ==
  /\ conn = [c \in Conns |-> "new"]
  /\ socketUser = [c \in Conns |-> NoUser]
  /\ online = <<>>
  /\ usersFile = <<UserRec("u1"), UserRec("u2")>>
  /\ \E n \in 0..Min(MaxBoot, RETENTION) :
       messagesFile = [i \in 1..n |-> OldMsg(n + 1 - i)]
  /\ bootLog = messagesFile
  /\ tasks = EmptyBag
  /\ clock = 1
  /\ sent = <<>>
  /\ out = <<>>
  /\ lastOp = Quiet
  /\ broken = {}

\* ------------------------------------------------------ environment
\* io.on("connection"); sockets are numbered in the order they connect.
Connect(c) ==
  /\ conn[c] = "new"
  /\ \A d \in Conns : d < c => conn[d] # "new"
  /\ conn' = [conn EXCEPT ![c] = "open"]
  /\ out' = <<>>
  /\ lastOp' = Quiet
  /\ UNCHANGED <<socketUser, online, usersFile, messagesFile, tasks, clock, sent, bootLog, broken>>

\* Variant of Disconnect that also drops the suspended handlers of the socket.
DisconnectCancels(c) ==
  /\ conn[c] = "open"
  /\ conn' = [conn EXCEPT ![c] = "closed"]
  /\ tasks' = [t \in {u \in Running : u.conn # c} |-> CopiesIn(t, tasks)]
  /\ IF HasKey(online, c)
     THEN /\ online' = OnlineDelete(online, c)
          /\ out' = EmitTo(OpenConns \ {c}, "update-users",
                            OnlineValues(OnlineDelete(online, c)))
     ELSE /\ online' = online
          /\ out' = <<>>
  /\ lastOp' = Op("disconnect", c, <<>>)
  /\ UNCHANGED <<socketUser, usersFile, messagesFile, clock, sent, bootLog, broken>>

\* socket.on("disconnect"): the socket is already gone when the handler runs.
Disconnect(c) ==
  /\ conn[c] = "open"
  /\ conn' = [conn EXCEPT ![c] = "closed"]
  /\ IF HasKey(online, c)
     THEN /\ online' = OnlineDelete(online, c)
          /\ out' = EmitTo(OpenConns \ {c}, "update-users",
                            OnlineValues(OnlineDelete(online, c)))
     ELSE /\ online' = online
          /\ out' = <<>>
  /\ lastOp' = Op("disconnect", c, <<>>)
  /\ UNCHANGED <<socketUser, usersFile, messagesFile, tasks, clock, sent, bootLog, broken>>

\* ------------------------------------------------------ file I/O
\* Variant of ReadJSON that takes no notice of a failed read.
ReadJSONUnguarded(f, content) == content

\* readJSON: the parsed content, or [] when readFile or JSON.parse throws.
ReadJSON(f, content) == IF f \in broken THEN <<>> ELSE content

\* readJSON(MESSAGES_FILE): the moment the file is read for a waiting handler.
ReadMessages(t) ==
  /\ t.pc \in {"auth_read_msgs", "send_read"}
  /\ tasks' = Step(t, [t EXCEPT
                 !.messages = ReadJSON("messages", messagesFile),
                 !.pc = IF t.pc = "send_read" THEN "send_have"
                        ELSE "auth_have_msgs"])
  /\ out' = <<>>
  /\ lastOp' = Quiet
  /\ UNCHANGED <<conn, socketUser, online, usersFile, messagesFile, clock, sent, bootLog, broken>>

\* Variant of WriteMessages that completes without rewriting the file.
WriteMessagesLost(t) ==
  /\ t.pc = "send_write"
  /\ tasks' = Step(t, [t EXCEPT !.pc = "send_written"])
  /\ out' = <<>>
  /\ lastOp' = Quiet
  /\ UNCHANGED <<conn, socketUser, online, usersFile, messagesFile, clock, sent, bootLog, broken>>

\* writeJSON(MESSAGES_FILE, messages): the moment the file is rewritten.
WriteMessages(t) ==
  /\ t.pc = "send_write"
  /\ messagesFile' = t.messages
  /\ broken' = broken \ {"messages"}
  /\ tasks' = Step(t, [t EXCEPT !.pc = "send_written"])
  /\ out' = <<>>
  /\ lastOp' = Quiet
  /\ UNCHANGED <<conn, socketUser, online, usersFile, clock, sent, bootLog>>

\* ------------------------------------------------------ auth
\* socket.on("auth"), up to the first await.
OnAuth(c, userId) ==
  /\ conn[c] = "open"
  /\ HasFree
  /\ NumAuths < MaxAuths
  /\ tasks' = Spawn(NewTask("auth", "auth_read_users", c, <<userId>>))
  /\ out' = <<>>
  /\ lastOp' = Quiet
  /\ UNCHANGED <<conn, socketUser, online, usersFile, messagesFile, clock, sent, bootLog, broken>>

\* Variant of AuthLookup that clears socket.user when the lookup fails.
AuthLookupReset(t) ==
  LET c == t.conn
      userId == t.arg[1]
      users == ReadJSON("users", usersFile)
      i == Find(users, userId)
  IN
  /\ t.pc = "auth_read_users"
  /\ IF i = 0
     THEN /\ out' = SocketEmit(c, "auth-failed", <<>>)
          /\ tasks' = Finish(t)
          /\ lastOp' = Op("auth-failed", c, <<userId>>)
          /\ socketUser' = [socketUser EXCEPT ![c] = NoUser]
          /\ UNCHANGED online
     ELSE LET user == Safe(users[i]) IN
          /\ socketUser' = [socketUser EXCEPT ![c] = user]
          /\ online' = OnlinePut(online, c, user)
          /\ out' = IoEmit("update-users", OnlineValues(OnlinePut(online, c, user)))
          /\ tasks' = Step(t, [t EXCEPT !.pc = "auth_read_msgs"])
          /\ lastOp' = Op("auth-ok", c, <<userId>>)
  /\ UNCHANGED <<conn, usersFile, messagesFile, clock, sent, bootLog, broken>>

\* socket.on("auth"), from the first await to the second: readJSON(USERS_FILE)
\* delivers the content of users.json, which nothing in this model rewrites,
\* so the moment of the read within the wait is immaterial.
AuthLookup(t) ==
  LET c == t.conn
      userId == t.arg[1]
      users == ReadJSON("users", usersFile)
      i == Find(users, userId)
  IN
  /\ t.pc = "auth_read_users"
  /\ IF i = 0
     THEN /\ out' = SocketEmit(c, "auth-failed", <<>>)
          /\ tasks' = Finish(t)
          /\ lastOp' = Op("auth-failed", c, <<userId>>)
          /\ UNCHANGED <<socketUser, online>>
     ELSE LET user == Safe(users[i]) IN
          /\ socketUser' = [socketUser EXCEPT ![c] = user]
          /\ online' = OnlinePut(online, c, user)
          /\ out' = IoEmit("update-users", OnlineValues(OnlinePut(online, c, user)))
          /\ tasks' = Step(t, [t EXCEPT !.pc = "auth_read_msgs"])
          /\ lastOp' = Op("auth-ok", c, <<userId>>)
  /\ UNCHANGED <<conn, usersFile, messagesFile, clock, sent, bootLog, broken>>

\* socket.on("auth"), after the second await.
AuthLoad(t) ==
  /\ t.pc = "auth_have_msgs"
  /\ out' = SocketEmit(t.conn, "load-messages", SliceLast(t.messages, TAIL))
  /\ tasks' = Finish(t)
  /\ lastOp' = Op("auth-load", t.conn, t.messages)
  /\ UNCHANGED <<conn, socketUser, online, usersFile, messagesFile, clock, sent, bootLog, broken>>

\* ------------------------------------------------------ send
\* Variant of Accepts without the check of socket.user.
AcceptsAnyone(c, payload) == payload # <<>>

\* if (!socket.user) return; if (!text) return;  (if (!imageUrl) return;)
Accepts(c, payload) == socketUser[c] # NoUser /\ payload # <<>>

\* The part of both send handlers before the first await; `payload` is the
\* text after String(text || "").trim(), or the image url as given.
SendStart(c, kind, given, payload) ==
  /\ conn[c] = "open"
  /\ lastOp' = Op(kind, c, given)
  /\ out' = <<>>
  /\ IF ~Accepts(c, payload)
     THEN UNCHANGED tasks
     ELSE /\ HasFree
          /\ SendsStarted < MaxSends
          /\ tasks' = Spawn(NewTask(kind, "send_read", c, payload))
  /\ UNCHANGED <<conn, socketUser, online, usersFile, messagesFile, clock, sent, bootLog, broken>>

\* socket.on("send-message"), up to the first await.
OnSendMessage(c, text) == SendStart(c, "send-message", text, Trim(text))

\* socket.on("send-image"), up to the first await.
OnSendImage(c, imageUrl) == SendStart(c, "send-image", imageUrl, imageUrl)

\* profile: socket.user.profile || "" and color: socket.user.color || "#fff"
OrElse(v, dflt) == IF v = <<>> THEN dflt ELSE v

NewMsg(user, kind, payload, now) ==
  [id |-> now, userId |-> user.id, username |-> user.username,
   profile |-> OrElse(user.profile, <<>>),
   color |-> OrElse(user.color, DefaultColor),
   kind |-> IF kind = "send-message" THEN "text" ELSE "image",
   body |-> payload, timestamp |-> now]

\* Variant of SendAppend that waits for its socket to be connected.
SendAppendWhileOpen(t) ==
  LET msg == NewMsg(socketUser[t.conn], t.kind, t.arg, clock) IN
  /\ t.pc = "send_have"
  /\ conn[t.conn] = "open"
  /\ tasks' = Step(t, [t EXCEPT !.msg = msg,
                                !.messages = Truncate(Append(t.messages, msg)),
                                !.pc = "send_write"])
  /\ clock' = clock + 1
  /\ out' = <<>>
  /\ lastOp' = Quiet
  /\ UNCHANGED <<conn, socketUser, online, usersFile, messagesFile, sent, bootLog, broken>>

\* Both send handlers, from the build of the message to the second await.
SendAppend(t) ==
  LET msg == NewMsg(socketUser[t.conn], t.kind, t.arg, clock) IN
  /\ t.pc = "send_have"
  /\ tasks' = Step(t, [t EXCEPT !.msg = msg,
                                !.messages = Truncate(Append(t.messages, msg)),
                                !.pc = "send_write"])
  /\ clock' = clock + 1
  /\ out' = <<>>
  /\ lastOp' = Quiet
  /\ UNCHANGED <<conn, socketUser, online, usersFile, messagesFile, sent, bootLog, broken>>

\* Variant of SendBroadcast that leaves out the sender, as socket.broadcast.emit does.
SendBroadcastOthers(t) ==
  /\ t.pc = "send_written"
  /\ out' = EmitTo(OpenConns \ {t.conn}, "new-message", t.msg)
  /\ sent' = Append(sent, t.msg)
  /\ tasks' = Finish(t)
  /\ lastOp' = Op("send-broadcast", t.conn, <<t.msg>>)
  /\ UNCHANGED <<conn, socketUser, online, usersFile, messagesFile, clock, bootLog, broken>>

\* Both send handlers, after the second await.
SendBroadcast(t) ==
  /\ t.pc = "send_written"
  /\ out' = IoEmit("new-message", t.msg)
  /\ sent' = Append(sent, t.msg)
  /\ tasks' = Finish(t)
  /\ lastOp' = Op("send-broadcast", t.conn, <<t.msg>>)
  /\ UNCHANGED <<conn, socketUser, online, usersFile, messagesFile, clock, bootLog, broken>>

Next ==
  \/ \E c \in Conns : Connect(c)
  \/ \E c \in Conns : Disconnect(c)
  \/ \E c \in Conns : \E userId \in AuthIds(c) : OnAuth(c, userId)
  \/ \E t \in Running : AuthLookup(t)
  \/ \E t \in Running : ReadMessages(t)
  \/ \E t \in Running : AuthLoad(t)
  \/ \E c \in Conns, text \in Texts : OnSendMessage(c, text)
  \/ \E c \in Conns, imageUrl \in ImageUrls : OnSendImage(c, imageUrl)
  \/ \E t \in Running : SendAppend(t)
  \/ \E t \in Running : WriteMessages(t)
  \/ \E t \in Running : SendBroadcast(t)

Spec == Init /\ [][Next]_vars

\* ------------------------------------------------------ scheduling
\* A step of a suspended send handler: the completion of its read or write
\* by the I/O layer, or its resumption by the event loop.
SendStep ==
  \E t \in Running :
    /\ t.kind \in SendKinds
    /\ \/ ReadMessages(t)
       \/ SendAppend(t)
       \/ WriteMessages(t)
       \/ SendBroadcast(t)

\* The event loop runs every continuation that is ready, and the file
\* operations complete.
SpecLive == Spec /\ WF_vars(SendStep)

\* ------------------------------------------------------ file system faults
Files == {"users", "messages"}

\* A file of the data directory becomes unreadable: removed, or its content
\* no longer parses.  It stays so until it is rewritten.
BreakFile(f) ==
  /\ f \notin broken
  /\ broken' = broken \cup {f}
  /\ out' = <<>>
  /\ lastOp' = Quiet
  /\ UNCHANGED <<conn, socketUser, online, usersFile, messagesFile, tasks, clock,
                 sent, bootLog>>

\* writeJSON(MESSAGES_FILE, messages) rejects: writeJSON has no catch and the
\* handler has no try, so the handler ends at the await, before io.emit.
\* What the unhandled rejection does then depends on the Node version and
\* its --unhandled-rejections mode: a warning, or the end of the process
\* (fatal), which closes every socket and drops every suspended handler.
WriteFails(t, fatal) ==
  /\ t.pc = "send_write"
  /\ out' = <<>>
  /\ IF fatal
     THEN /\ conn' = [c \in Conns |-> "closed"]
          /\ socketUser' = [c \in Conns |-> NoUser]
          /\ online' = <<>>
          /\ tasks' = EmptyBag
          /\ lastOp' = Op("exit", t.conn, <<t.msg>>)
     ELSE /\ tasks' = Finish(t)
          /\ lastOp' = Op("write-failed", t.conn, <<t.msg>>)
          /\ UNCHANGED <<conn, socketUser, online>>
  /\ UNCHANGED <<usersFile, messagesFile, clock, sent, bootLog, broken>>

NextFaults ==
  \/ Next
  \/ \E f \in Files : BreakFile(f)
  \/ \E t \in Running : \E fatal \in BOOLEAN : WriteFails(t, fatal)

SpecFaults == Init /\ [][NextFaults]_vars

\* ================================================================ claims
\* Vocabulary of the properties, stated without the operators of the model.
InStore(userId) == \E i \in 1..Len(usersFile) : usersFile[i].id = userId
CountIn(seq, id) == Cardinality({i \in 1..Len(seq) : seq[i].id = id})
LastOf(seq, n) == SubSeq(seq, Len(seq) - Min(n, Len(seq)) + 1, Len(seq))
Blank(s) == \A i \in 1..Len(s) : s[i] = " "
EntriesOf(c) == {i \in 1..Len(online) : online[i].key = c}
NoSendRunning == \A t \in Running : t.kind \notin SendKinds
\* The messages broadcast so far, in the order in which they were accepted.
SentById == [i \in 1..Len(sent) |-> sent[CHOOSE j \in 1..Len(sent) : sent[j].id = i]]

\* C1: every accepted send whose handler has finished is in the persisted
\* log exactly once, unless the retention bound evicted it (the log is full
\* of messages accepted after it); no message is in the log twice.
C1_NoLostNoDuplicate ==
  /\ \A i \in 1..Len(messagesFile) : CountIn(messagesFile, messagesFile[i].id) = 1
  /\ \A j \in 1..Len(sent) :
       \/ CountIn(messagesFile, sent[j].id) = 1
       \/ /\ Len(messagesFile) = RETENTION
          /\ \A i \in 1..Len(messagesFile) : messagesFile[i].id > sent[j].id

\* C2: the presence map holds an entry only for a socket that is still open.
C2_PresenceOnlyWhileOpen ==
  \A i \in 1..Len(online) : conn[online[i].key] = "open"

\* C3: an auth with a userId that is in the store ends in success: the
\* session holds that user and the presence map holds exactly one entry for
\* the socket, also when the socket had authenticated before.
C3_AuthSucceeds ==
  (lastOp.op \in {"auth-ok", "auth-failed"} /\ InStore(lastOp.arg[1])) =>
    /\ lastOp.op = "auth-ok"
    /\ socketUser[lastOp.conn] # NoUser
    /\ socketUser[lastOp.conn].id = lastOp.arg[1]
    /\ Cardinality(EntriesOf(lastOp.conn)) = 1

\* C3 witness: a socket authenticates again while its entry precedes the
\* entry of another socket.
C3_Witness ==
  /\ lastOp.op = "auth-ok"
  /\ Len(online) = 2
  /\ online[1].key = lastOp.conn
  /\ online[2].key # lastOp.conn

\* C4: an auth with a userId that is not in the store ends in failure: the
\* session and the presence map are unchanged, the handler ends, and the only
\* event emitted is auth-failed, to no socket but the requesting one.
C4_AuthFails ==
  [][ (lastOp'.op \in {"auth-ok", "auth-failed"} /\ ~InStore(lastOp'.arg[1])) =>
        /\ lastOp'.op = "auth-failed"
        /\ socketUser' = socketUser
        /\ online' = online
        /\ Len(out') = 1
        /\ out'[1].ev = "auth-failed"
        /\ out'[1].to \subseteq {lastOp'.conn}
        /\ BagCardinality(tasks') = BagCardinality(tasks) - 1
        /\ \A t \in BagToSet(tasks') : CopiesIn(t, tasks') <= CopiesIn(t, tasks)
    ]_vars

\* C4 witness: a failed auth reaches its socket while another socket is open.
C4_Witness ==
  /\ lastOp.op = "auth-failed"
  /\ socketUser[lastOp.conn] = NoUser
  /\ out[1].to = {lastOp.conn}
  /\ Cardinality(OpenConns) = 2

\* C5: a send from a socket without a user starts no handler, persists
\* nothing and broadcasts nothing; every new-message comes from a socket
\* that holds a user, and no persisted message lacks one.
C5_UnauthenticatedSendDropped ==
  [][ /\ (lastOp'.op \in SendKinds /\ socketUser[lastOp'.conn] = NoUser) =>
           /\ UNCHANGED <<messagesFile, tasks, sent, clock, online>>
           /\ out' = <<>>
      /\ lastOp'.op = "send-broadcast" =>
           /\ socketUser[lastOp'.conn] # NoUser
           /\ lastOp'.arg[1].userId = socketUser[lastOp'.conn].id
      /\ \A i \in 1..Len(messagesFile') : messagesFile'[i].userId # NoUser.id
    ]_vars

\* C5 witness: a socket without a user has sent a non-empty image reference.
C5_Witness ==
  /\ lastOp.op = "send-image"
  /\ lastOp.arg # <<>>
  /\ socketUser[lastOp.conn] = NoUser

\* C6: the persisted log never holds more messages than the retention bound.
C6_RetentionBound == Len(messagesFile) <= RETENTION

\* C6 witness: the log is full of the messages of this run, the messages
\* found at start having been evicted.
C6_Witness ==
  /\ Len(messagesFile) = RETENTION
  /\ bootLog # <<>>
  /\ messagesFile[1].id > 0
  /\ Len(sent) = RETENTION

\* C7: after a sequence of more accepted sends than the retention bound
\* (the log found at start holds the sends of earlier runs), the persisted
\* log is the most recent RETENTION of them in their order of acceptance.
C7_LogIsMostRecent ==
  (NoSendRunning /\ Len(bootLog) + Len(sent) > RETENTION) =>
    messagesFile = LastOf(bootLog \o SentById, RETENTION)

\* C8: a send-message of white space only, or a send-image with an empty
\* reference, from a socket that holds a user changes nothing: no handler
\* is left running, and the log, presence map and broadcasts are unchanged.
C8_EmptySendNoOp ==
  [][ ( /\ \/ lastOp'.op = "send-message" /\ Blank(lastOp'.arg)
           \/ lastOp'.op = "send-image" /\ lastOp'.arg = <<>>
        /\ socketUser[lastOp'.conn] # NoUser ) =>
        /\ UNCHANGED <<messagesFile, online, socketUser, sent, tasks, clock>>
        /\ out' = <<>>
    ]_vars

\* C8 witness: a socket that holds a user has sent a text of one space.
C8_Witness ==
  /\ lastOp.op = "send-message"
  /\ lastOp.arg = <<" ">>
  /\ socketUser[lastOp.conn] # NoUser

C10_LoadMessages ==
  [][ /\ lastOp'.op = "auth-load" =>
           /\ Len(out') = 1
           /\ out'[1].ev = "load-messages"
           /\ out'[1].to \subseteq {lastOp'.conn}
           /\ out'[1].payload = LastOf(lastOp'.arg, TAIL)
           /\ \E t \in Running :
                /\ t.pc = "auth_have_msgs"
                /\ t.conn = lastOp'.conn
                /\ t.messages = lastOp'.arg
      /\ lastOp'.op # "auth-load" =>
           \A i \in 1..Len(out') : out'[i].ev # "load-messages"
      /\ \A t \in BagToSet(tasks') :
           (t.pc = "auth_have_msgs" /\ CopiesIn(t, tasks') > CopiesIn(t, tasks)) =>
             /\ t.messages = messagesFile
             /\ \E t0 \in Running : t0.pc = "auth_read_msgs" /\ t0.conn = t.conn
      /\ \A t \in BagToSet(tasks') :
           (t.pc = "auth_read_msgs" /\ CopiesIn(t, tasks') > CopiesIn(t, tasks)) =>
             /\ lastOp'.op = "auth-ok"
             /\ lastOp'.conn = t.conn
             /\ out'[1].ev = "update-users"
    ]_vars

\* C10 witness: the tail delivered to the requesting socket is a proper
\* suffix of the log that was read.
C10_Witness ==
  /\ lastOp.op = "auth-load"
  /\ Len(lastOp.arg) > TAIL
  /\ out[1].to = {lastOp.conn}

\* ------------------------------------------------- more vocabulary
\* The entries of a presence map whose key is not c, in their order.
RECURSIVE Without(_, _)
Without(o, c) ==
  IF o = <<>> THEN <<>>
  ELSE IF Head(o).key = c THEN Without(Tail(o), c)
  ELSE <<Head(o)>> \o Without(Tail(o), c)
UsersOf(o) == [i \in 1..Len(o) |-> o[i].user]
\* GET /api/messages: the persisted history as read back.
History == ReadJSON("messages", messagesFile)
PosInLog(id) == CHOOSE k \in 1..Len(messagesFile) : messagesFile[k].id = id
NewlyAt(t, pc) == t.pc = pc /\ CopiesIn(t, tasks') > CopiesIn(t, tasks)

\* C11: when a socket that has a presence entry disconnects, the entry is
\* removed, the other entries stay, and update-users with the remaining
\* snapshot goes to all remaining sockets and not to the one that left.
C11_DisconnectBroadcast ==
  [][ (lastOp'.op = "disconnect" /\ EntriesOf(lastOp'.conn) # {}) =>
        /\ online' = Without(online, lastOp'.conn)
        /\ out' = <<[ev |-> "update-users",
                     to |-> {d \in Conns : conn'[d] = "open"},
                     payload |-> UsersOf(online')]>>
        /\ lastOp'.conn \notin out'[1].to
    ]_vars

\* C11 witness: a socket with an entry has left, and the snapshot sent to
\* the remaining socket holds the remaining user.
C11_Witness ==
  /\ lastOp.op = "disconnect"
  /\ Len(out) = 1
  /\ out[1].to # {}
  /\ Len(out[1].payload) = 1

\* C13: when a send completes with its broadcast, the newest entry of the
\* history read back equals the broadcast message field for field.
C13_RoundTrip ==
  lastOp.op = "send-broadcast" =>
    /\ History # <<>>
    /\ History[Len(History)] = lastOp.arg[1]

\* C14: two messages that are both in the persisted log were broadcast in
\* the order in which the log holds them.
C14_BroadcastOrderIsLogOrder ==
  \A i, j \in 1..Len(sent) :
    ( /\ i < j
      /\ CountIn(messagesFile, sent[i].id) = 1
      /\ CountIn(messagesFile, sent[j].id) = 1 ) =>
      PosInLog(sent[i].id) < PosInLog(sent[j].id)

\* C15: a socket that holds a user keeps holding one through every auth
\* and send; an authenticated session ends only by its disconnect.
C15_AuthenticatedUntilDisconnect ==
  [][ \A c \in Conns :
        /\ socketUser[c] # NoUser => socketUser'[c] # NoUser
        /\ ( /\ conn[c] = "open" /\ socketUser[c] # NoUser
             /\ ~(conn'[c] = "open" /\ socketUser'[c] # NoUser) ) =>
             (lastOp'.op = "disconnect" /\ lastOp'.conn = c)
    ]_vars

\* C15 witness: a failed auth on a socket that holds a user and is open.
C15_Witness ==
  /\ lastOp.op = "auth-failed"
  /\ conn[lastOp.conn] = "open"
  /\ socketUser[lastOp.conn] # NoUser

\* C18: an open socket has a presence entry exactly if it holds a user, the
\* entry is that user, which is the projection id, username, profile, color
\* of a stored user; every update-users carries the whole presence map as
\* it is when emitted.
C18_PresenceMatchesSession ==
  /\ \A c \in Conns : conn[c] = "open" =>
       /\ (EntriesOf(c) # {}) <=> (socketUser[c] # NoUser)
       /\ \A i \in EntriesOf(c) :
            /\ online[i].user = socketUser[c]
            /\ DOMAIN online[i].user = {"id", "username", "profile", "color"}
            /\ \E k \in 1..Len(usersFile) :
                 /\ usersFile[k].id = online[i].user.id
                 /\ usersFile[k].username = online[i].user.username
                 /\ usersFile[k].profile = online[i].user.profile
                 /\ usersFile[k].color = online[i].user.color
  /\ \A i \in 1..Len(out) :
       out[i].ev = "update-users" => out[i].payload = UsersOf(online)

\* C18 witness: an update-users with two users while both sockets are open.
C18_Witness ==
  /\ Len(out) = 1
  /\ out[1].ev = "update-users"
  /\ Len(out[1].payload) = 2
  /\ \A c \in Conns : conn[c] = "open"

\* C19 as stated: nothing is written and nothing is broadcast for a socket
\* that has disconnected.
C19_NothingAfterClose ==
  [][ /\ \A t \in BagToSet(tasks') :
           NewlyAt(t, "send_written") => conn[t.conn] # "closed"
      /\ lastOp'.op = "send-broadcast" => conn[lastOp'.conn] # "closed"
    ]_vars

\* C19 amended: a send is accepted only from an open socket, and a
\* disconnect cancels no handler: a send already in flight still persists
\* and broadcasts its message.
C19_OnlyInFlightSendsOutliveClose ==
  [][ /\ \A t \in BagToSet(tasks') :
           NewlyAt(t, "send_read") => (conn[t.conn] = "open" /\ conn'[t.conn] = "open")
      /\ lastOp'.op \in SendKinds => conn[lastOp'.conn] = "open"
      /\ lastOp'.op = "disconnect" => tasks' = tasks
    ]_vars

\* C19 witness: a message is broadcast, and is in the log, for a socket that
\* has disconnected.
C19_Witness ==
  /\ lastOp.op = "send-broadcast"
  /\ conn[lastOp.conn] = "closed"
  /\ CountIn(messagesFile, lastOp.arg[1].id) = 1

\* C20: a message is broadcast only by a handler whose write has completed,
\* and that write put the message into the log as its newest entry.
C20_PersistBeforeBroadcast ==
  [][ /\ \A t \in BagToSet(tasks') :
           NewlyAt(t, "send_written") =>
             /\ messagesFile' = t.messages
             /\ messagesFile' # <<>>
             /\ messagesFile'[Len(messagesFile')] = t.msg
             /\ \E t0 \in Running : t0.pc = "send_write" /\ t0.msg = t.msg
      /\ lastOp'.op = "send-broadcast" =>
           \E t \in Running : t.pc = "send_written" /\ t.msg = lastOp'.arg[1]
    ]_vars

\* C20 witness: a broadcast of a message while another handler still waits
\* for its write.
C20_Witness ==
  /\ lastOp.op = "send-broadcast"
  /\ \E t \in Running : t.pc = "send_write"

\* C12: when the write of an accepted send fails, the message is still
\* broadcast as new-message to every open socket, and the process and the
\* other sockets go on.
C12_BroadcastDespiteWriteFailure ==
  [][ lastOp'.op \in {"write-failed", "exit"} =>
        /\ out' = <<[ev |-> "new-message",
                     to |-> {d \in Conns : conn[d] = "open"},
                     payload |-> lastOp'.arg[1]]>>
        /\ conn' = conn
        /\ lastOp'.op # "exit"
    ]_vars

\* C16: a file that cannot be read counts as []: with users.json unreadable
\* an auth ends in auth-failed to the requester alone and changes neither
\* presence map nor socket.user; with users.json readable an auth with a
\* stored id succeeds whatever the state of messages.json; a read of an
\* unreadable messages.json hands [] to the handler, and the auth then
\* delivers an empty load-messages; no socket is closed by any of it.
C16_FailedReadIsEmpty ==
  [][ /\ (lastOp'.op \in {"auth-ok", "auth-failed"} /\ "users" \in broken) =>
           /\ lastOp'.op = "auth-failed"
           /\ online' = online
           /\ socketUser' = socketUser
           /\ out' = <<[ev |-> "auth-failed",
                        to |-> {d \in {lastOp'.conn} : conn[d] = "open"},
                        payload |-> <<>>]>>
      /\ ( /\ lastOp'.op \in {"auth-ok", "auth-failed"}
           /\ "users" \notin broken
           /\ InStore(lastOp'.arg[1]) ) => lastOp'.op = "auth-ok"
      /\ \A t \in BagToSet(tasks') :
           (NewlyAt(t, "auth_have_msgs") /\ "messages" \in broken) =>
             t.messages = <<>>
      /\ (lastOp'.op = "auth-load" /\ lastOp'.arg = <<>>) =>
           out' = <<[ev |-> "load-messages",
                     to |-> {d \in {lastOp'.conn} : conn[d] = "open"},
                     payload |-> <<>>]>>
      /\ lastOp'.op \in {"auth-ok", "auth-failed", "auth-load"} => conn' = conn
    ]_vars

\* C16 witness: an auth has succeeded and delivered an empty load-messages
\* although messages.json held a message from the start; it is unreadable.
C16_Witness ==
  /\ lastOp.op = "auth-load"
  /\ lastOp.arg = <<>>
  /\ "messages" \in broken
  /\ bootLog # <<>>
  /\ out = <<[ev |-> "load-messages", to |-> {lastOp.conn}, payload |-> <<>>]>>
  /\ socketUser[lastOp.conn] # NoUser

\* C17: with the pending steps of the send handlers scheduled fairly and the
\* reads and writes completing, every accepted send is broadcast in the end:
\* the broadcasts catch up with the accepted sends, and every message built
\* is broadcast, whatever the other sockets and handlers do.
C17_AcceptedSendIsBroadcast ==
  \A i \in 1..MaxSends :
    /\ (SendsStarted >= i) ~> (Len(sent) >= i)
    /\ (\E t \in Running : t.msg.id = i) ~> (\E j \in 1..Len(sent) : sent[j].id = i)

\* C17 witness: every accepted send has been broadcast, the last one after
\* its socket has gone and while an auth handler is suspended.
C17_Witness ==
  /\ lastOp.op = "send-broadcast"
  /\ Len(sent) = MaxSends
  /\ conn[lastOp.conn] = "closed"
  /\ \E t \in Running : t.kind = "auth"
====
